---- MODULE Spec2Model ----
(***************************************************************************)
(* A model of tools.py: the random orthogonal matrix generator, the        *)
(* hyper-parameter / log persistence helpers, the model directory search,  *)
(* the feed-dict construction and mkdir_p.                                  *)
(*                                                                         *)
(* Real numbers are modelled exactly: a matrix is an integer numerator     *)
(* matrix over one positive denominator, reduced to lowest terms, plus a   *)
(* flag for NaN entries.  The random source returns integer vectors whose  *)
(* Euclidean norm is an integer, so that sqrt is exact.                    *)
(***************************************************************************)
EXTENDS Integers, Sequences, FiniteSets, TLC

VARIABLES
    \* gen_ortho_matrix: the running call, the finished first call, and the
    \* process-global numpy source
    o_pc, o_dim, o_rng, o_n, o_H, o_draws, o_entry, o_first, np_random,
    \* the model directories on disk, the caller's hyper-parameter mapping,
    \* which directories save_hparams was called on, and the last call made
    fs, hparams, saved, last,
    \* gen_feed_dict: the arguments, the loop index, the tensor being filled
    \* and the result
    f_pc, f_hp, f_trial, f_i, f_x, f_out,
    \* mkdir_p: the directory tree, whether its root refuses writes, and the
    \* last call made
    tree, rootRO, m_last

orthoVars == <<o_pc, o_dim, o_rng, o_n, o_H, o_draws, o_entry, o_first, np_random>>

fileVars == <<fs, hparams, saved, last>>

feedVars == <<f_pc, f_hp, f_trial, f_i, f_x, f_out>>

mkVars == <<tree, rootRO, m_last>>

vars == <<orthoVars, fileVars, feedVars, mkVars>>

----------------------------------------------------------------------------
\* Bounds of the model
MaxDim == 3
MaxSeed == 15
MaxGlobalSeed == 2
NDirs == 2
MaxT == 2
MaxB == 2
MaxR == 2
MaxC == 2
MaxDepth == 2

----------------------------------------------------------------------------
\* Integer helpers

Abs(a) == IF a < 0 THEN -a ELSE a

RECURSIVE Gcd(_, _)
Gcd(a, b) == IF b = 0 THEN Abs(a) ELSE Gcd(b, a % b)

RECURSIVE Pow(_, _)
Pow(b, e) == IF e = 0 THEN 1 ELSE b * Pow(b, e - 1)

RECURSIVE SumSeq(_)
SumSeq(s) == IF s = <<>> THEN 0 ELSE Head(s) + SumSeq(Tail(s))

RECURSIVE GcdSeq(_)
GcdSeq(s) == IF s = <<>> THEN 0 ELSE Gcd(Head(s), GcdSeq(Tail(s)))

\* np.sqrt on a non-negative number (exact on perfect squares)
Sqrt(s) == CHOOSE r \in 0..s : r * r <= s /\ (r + 1) * (r + 1) > s

\* np.sign: -1, 0 or 1
Sign(a) == IF a > 0 THEN 1 ELSE IF a < 0 THEN -1 ELSE 0

----------------------------------------------------------------------------
\* Matrices: [num |-> d x d integers, den |-> positive integer, nan |-> BOOLEAN]

EyeNum(d) == [i \in 1..d |-> [j \in 1..d |-> IF i = j THEN 1 ELSE 0]]

\* np.eye(dim)
Eye(d) == [num |-> EyeNum(d), den |-> 1, nan |-> FALSE]

NaNMatrix(d) == [num |-> [i \in 1..d |-> [j \in 1..d |-> 0]], den |-> 1, nan |-> TRUE]

MatGcd(M, d) == GcdSeq([i \in 1..d |-> GcdSeq(M[i])])

\* the same rational matrix in lowest terms
Reduce(M, d) ==
    IF M.nan THEN NaNMatrix(d)
    ELSE LET g == Gcd(MatGcd(M.num, d), M.den)
         IN [num |-> [i \in 1..d |-> [j \in 1..d |-> M.num[i][j] \div g]],
             den |-> M.den \div g, nan |-> FALSE]

\* np.dot(A, B) for d x d matrices; a NaN entry spreads
Dot(A, B, d) ==
    IF A.nan \/ B.nan THEN NaNMatrix(d)
    ELSE Reduce([num |-> [i \in 1..d |-> [j \in 1..d |->
                            SumSeq([k \in 1..d |-> A.num[i][k] * B.num[k][j]])]],
                 den |-> A.den * B.den, nan |-> FALSE], d)

\* M . M^T as a rational matrix
MMt(M, d) ==
    Dot(M, [num |-> [i \in 1..d |-> [j \in 1..d |-> M.num[j][i]]],
            den |-> M.den, nan |-> M.nan], d)

----------------------------------------------------------------------------
\* The random source.  A generator is [seed, pos]: the draws it returns are a
\* function of its seed and of the number of draws taken from it so far.

NormalTable2 == << <<3, 4>>, <<-4, 3>>, <<0, 1>>, <<0, 0>> >>
NormalTable3 == << <<1, 2, 2>>, <<-2, 1, 2>>, <<0, 3, 4>>, <<0, 0, 0>> >>

NIdx == Len(NormalTable2)

Pad(v, k) == [j \in 1..k |-> IF j <= Len(v) THEN v[j] ELSE 0]

\* RandomState.normal(size=(k,)): the vector and the generator afterwards
Normal(g, k) ==
    LET idx == ((g.seed \div Pow(NIdx, g.pos)) % NIdx) + 1
    IN [x |-> IF k = 2 THEN NormalTable2[idx] ELSE Pad(NormalTable3[idx], k),
        g |-> [seed |-> g.seed, pos |-> g.pos + 1]]

RandomState(seed) == [seed |-> seed, pos |-> 0]

None == [none |-> TRUE]

----------------------------------------------------------------------------
\* gen_ortho_matrix(dim, rng)

\* a slip: the supplied generator is ignored
DrawFromGlobalMutant(rng) == TRUE

\* lines 166-169: which source the draw is taken from
DrawFromGlobal(rng) == rng = None

\* lines 171-172: D and the perturbed vector
HouseholderVec(x) ==
    LET D == Sign(x[1])
    IN [x EXCEPT ![1] = x[1] + D * Sqrt(SumSeq([j \in 1..Len(x) |-> x[j] * x[j]]))]

\* lines 174-176: mat = eye(dim) with Hx in rows and columns n-1 onward
\* (0-indexed), where Hx = -D*(eye(k) - 2*outer(x, x)/sum(x*x))
HouseholderMat(dim, n, x0) ==
    LET D == Sign(x0[1])
        x == HouseholderVec(x0)
        s == SumSeq([j \in 1..Len(x) |-> x[j] * x[j]])
    IN IF s = 0 THEN NaNMatrix(dim)    \* 0/0
       ELSE Reduce([num |-> [i \in 1..dim |-> [j \in 1..dim |->
                        IF i >= n /\ j >= n
                        THEN -D * ((IF i = j THEN s ELSE 0) - 2 * x[i - n + 1] * x[j - n + 1])
                        ELSE IF i = j THEN s ELSE 0]],
                    den |-> s, nan |-> FALSE], dim)

\* the call: H = np.eye(dim)
OrthoCall ==
    /\ o_pc = "idle"
    /\ \E dim \in 1..MaxDim, rng \in {None} \cup {RandomState(s) : s \in 0..MaxSeed} :
          /\ o_dim' = dim
          /\ o_rng' = rng
          /\ o_H' = Eye(dim)
          /\ o_entry' = [rng |-> rng, np_random |-> np_random]
    /\ o_n' = 1
    /\ o_draws' = <<>>
    /\ o_pc' = "loop"
    /\ UNCHANGED <<o_first, np_random>>
    /\ UNCHANGED <<fileVars, feedVars, mkVars>>

\* one iteration of: for n in range(1, dim)
OrthoStep ==
    /\ o_pc = "loop"
    /\ o_n < o_dim
    /\ LET k == o_dim - o_n + 1
           fromGlobal == DrawFromGlobal(o_rng)
           r == IF fromGlobal THEN Normal(np_random, k) ELSE Normal(o_rng, k)
       IN /\ np_random' = IF fromGlobal THEN r.g ELSE np_random
          /\ o_rng' = IF fromGlobal THEN o_rng ELSE r.g
          /\ o_H' = Dot(o_H, HouseholderMat(o_dim, o_n, r.x), o_dim)
          /\ o_draws' = Append(o_draws, r.x)
    /\ o_n' = o_n + 1
    /\ UNCHANGED <<o_pc, o_dim, o_entry, o_first>>
    /\ UNCHANGED <<fileVars, feedVars, mkVars>>

\* return H
OrthoReturn ==
    /\ o_pc = "loop"
    /\ o_n >= o_dim
    /\ o_pc' = "done"
    /\ UNCHANGED <<o_dim, o_rng, o_n, o_H, o_draws, o_entry, o_first, np_random>>
    /\ UNCHANGED <<fileVars, feedVars, mkVars>>

\* the caller keeps the first result and calls again
OrthoAgain ==
    /\ o_pc = "done"
    /\ o_first = None
    /\ o_first' = [dim |-> o_dim, H |-> o_H, draws |-> o_draws, entry |-> o_entry]
    /\ o_pc' = "idle"
    /\ UNCHANGED <<o_dim, o_rng, o_n, o_H, o_draws, o_entry, np_random>>
    /\ UNCHANGED <<fileVars, feedVars, mkVars>>

OrthoIdle ==
    /\ o_pc = "idle"
    /\ o_dim = 1
    /\ o_rng = None
    /\ o_n = 1
    /\ o_H = Eye(1)
    /\ o_draws = <<>>
    /\ o_entry = None
    /\ o_first = None



----------------------------------------------------------------------------
\* Python values held in a hyper-parameter mapping: <<tag, n>>.  A mapping is
\* a function on AllKeys in which Absent marks a key the dict does not hold.

Absent == <<"absent", 0>>
PyInt(n) == <<"int", n>>
PyTuple(n) == <<"tuple", n>>
PyList(n) == <<"list", n>>
RngObj(seed) == <<"rng", seed>>

AllKeys == {"seed", "target_perf", "n_rnn", "rng"}

Keys(m) == {k \in AllKeys : m[k] # Absent}

EmptyMap == [k \in AllKeys |-> Absent]

\* the offset load_hparams adds to the stored seed
SeedOffset == 1000

\* a == b in Python: generators compare by identity, a tuple never equals a list
PyEq(a, b) == a[1] # "rng" /\ b[1] # "rng" /\ a = b

\* what json.dump writes for a value: a tuple is written as an array
JsonEncode(v) == IF v[1] = "tuple" THEN PyList(v[2]) ELSE v

\* json.dump raises TypeError on anything else
JsonSerializable(v) == v[1] \in {"int", "tuple", "list", "absent"}

\* a file: absent, present with text json.load rejects, or present with a mapping
NoFile == [exists |-> FALSE, valid |-> FALSE, json |-> EmptyMap]
BadFile == [exists |-> TRUE, valid |-> FALSE, json |-> EmptyMap]
JsonFile(m) == [exists |-> TRUE, valid |-> TRUE, json |-> m]

NoLog == [exists |-> FALSE, perf_min |-> <<>>]
LogFile(perf) == [exists |-> TRUE, perf_min |-> perf]

Dirs == 1..NDirs

\* results of a call
Returned(v) == [outcome |-> "returned", exc |-> "", isNone |-> FALSE, value |-> v]
ReturnedNone == [outcome |-> "returned", exc |-> "", isNone |-> TRUE, value |-> EmptyMap]
Raised(e) == [outcome |-> "raised", exc |-> e, isNone |-> FALSE, value |-> EmptyMap]

----------------------------------------------------------------------------
\* _contain_model_file, valid_model_dirs

\* 'model.ckpt' in f
HasCkptMarker(f) == f \in {"model.ckpt-100.index", "model.ckpt-100.meta"}

ContainModelFile(d) == \E f \in d.names : HasCkptMarker(f)

RECURSIVE WalkFrom(_, _)
WalkFrom(fsys, d) ==
    IF d > NDirs THEN <<>>
    ELSE (IF ContainModelFile(fsys[d]) THEN <<d>> ELSE <<>>) \o WalkFrom(fsys, d + 1)

\* the directories in os.walk order that contain a checkpoint file
ValidModelDirs(fsys) == WalkFrom(fsys, 1)

----------------------------------------------------------------------------
\* load_log, load_hparams, save_hparams, save_log

LoadLog(d) ==
    IF ~d.log.exists THEN [outcome |-> "returned", exc |-> "", isNone |-> TRUE, perf_min |-> <<>>]
    ELSE [outcome |-> "returned", exc |-> "", isNone |-> FALSE, perf_min |-> d.log.perf_min]

LoadHparams(d) ==
    IF ~d.hp.exists THEN ReturnedNone
    ELSE IF ~d.hp.valid THEN Raised("ValueError")
    ELSE IF d.hp.json["seed"] = Absent THEN Raised("KeyError")
    ELSE IF d.hp.json["seed"][1] # "int" THEN Raised("TypeError")
    ELSE Returned([d.hp.json EXCEPT !["rng"] = RngObj(d.hp.json["seed"][2] + SeedOffset)])

\* a slip: 'rng' is popped from the caller's mapping, not from a copy
PopRngMutant(h) == [caller |-> [h EXCEPT !["rng"] = Absent], copy |-> [h EXCEPT !["rng"] = Absent]]

\* lines 86-87: hparams_copy = hparams.copy(); hparams_copy.pop('rng')
PopRng(h) == [caller |-> h, copy |-> [h EXCEPT !["rng"] = Absent]]

\* lines 88-89: open(..., 'wb') truncates the file; json.dump writes str, which
\* a binary file of Python 3 rejects
JsonDumpBinary(m, py) ==
    IF py = 3 THEN [file |-> BadFile, exc |-> "TypeError"]
    ELSE IF \E k \in AllKeys : ~JsonSerializable(m[k]) THEN [file |-> BadFile, exc |-> "TypeError"]
    ELSE [file |-> JsonFile([k \in AllKeys |-> JsonEncode(m[k])]), exc |-> ""]

\* save_hparams(h, d): the caller's mapping afterwards, the directory afterwards
SaveHparams(h, d, py) ==
    IF h["rng"] = Absent THEN [h |-> h, d |-> d, res |-> Raised("KeyError")]
    ELSE LET p == PopRng(h)
             w == JsonDumpBinary(p.copy, py)
         IN [h |-> p.caller, d |-> [d EXCEPT !.hp = w.file],
             res |-> IF w.exc = "" THEN ReturnedNone ELSE Raised(w.exc)]

----------------------------------------------------------------------------
\* find_all_models, find_model

\* a slip: any() in place of all()
RECURSIVE MatchAllMutant(_, _, _)
MatchAllMutant(hp, target, i) ==
    IF i > Len(target) THEN "false"
    ELSE IF hp.isNone THEN "TypeError"
    ELSE IF hp.value[target[i][1]] = Absent THEN "KeyError"
    ELSE IF PyEq(hp.value[target[i][1]], target[i][2]) THEN "true"
    ELSE MatchAllMutant(hp, target, i + 1)

\* line 109: all(hp[key] == val for key, val in hp_target.items()), from item i
RECURSIVE MatchAll(_, _, _)
MatchAll(hp, target, i) ==
    IF i > Len(target) THEN "true"
    ELSE IF hp.isNone THEN "TypeError"
    ELSE IF hp.value[target[i][1]] = Absent THEN "KeyError"
    ELSE IF PyEq(hp.value[target[i][1]], target[i][2]) THEN MatchAll(hp, target, i + 1)
    ELSE "false"

\* lines 107-111: the loop over dirs, from position i
RECURSIVE FindLoop(_, _, _, _, _, _)
FindLoop(fsys, dirs, target, i, model_dirs, hps) ==
    IF i > Len(dirs) THEN [outcome |-> "returned", exc |-> "", dirs |-> model_dirs, hps |-> hps]
    ELSE LET hp == LoadHparams(fsys[dirs[i]])
         IN IF hp.outcome = "raised"
            THEN [outcome |-> "raised", exc |-> hp.exc, dirs |-> <<>>, hps |-> <<>>]
            ELSE LET m == MatchAll(hp, target, 1)
                 IN IF m \in {"TypeError", "KeyError"}
                    THEN [outcome |-> "raised", exc |-> m, dirs |-> <<>>, hps |-> <<>>]
                    ELSE IF m = "true"
                    THEN FindLoop(fsys, dirs, target, i + 1,
                                  Append(model_dirs, dirs[i]), Append(hps, hp))
                    ELSE FindLoop(fsys, dirs, target, i + 1, model_dirs, hps)

FindAllModels(fsys, target) == FindLoop(fsys, ValidModelDirs(fsys), target, 1, <<>>, <<>>)

NotFoundMsg == "Model not found"
WarningMsg == "Warning: the network found did not reach target performance."

\* a slip: a performance below the target is an error
PerfCheckMutant(perf, target_perf) ==
    IF perf[Len(perf)] < target_perf[2] THEN [exc |-> "ValueError", printed |-> <<>>]
    ELSE [exc |-> "", printed |-> <<>>]

\* lines 139-140: the comparison of the last perf_min with target_perf
PerfCheck(perf, target_perf) ==
    IF perf[Len(perf)] < target_perf[2] THEN [exc |-> "", printed |-> <<WarningMsg>>]
    ELSE [exc |-> "", printed |-> <<>>]

NoPair == [isNone |-> TRUE, d |-> 0, hp |-> ReturnedNone]

FindModel(fsys, target) ==
    LET r == FindAllModels(fsys, target)
    IN IF r.outcome = "raised"
       THEN [outcome |-> "raised", exc |-> r.exc, pair |-> NoPair, printed |-> <<>>, logLoaded |-> FALSE]
       ELSE IF r.dirs = <<>>
       THEN [outcome |-> "returned", exc |-> "", pair |-> NoPair,
             printed |-> <<NotFoundMsg>>, logLoaded |-> FALSE]
       ELSE LET d == r.dirs[1]
                hp == r.hps[1]
                log == LoadLog(fsys[d])
            IN IF log.isNone
               THEN [outcome |-> "raised", exc |-> "TypeError", pair |-> NoPair,
                     printed |-> <<>>, logLoaded |-> TRUE]
               ELSE IF log.perf_min = <<>>
               THEN [outcome |-> "raised", exc |-> "IndexError", pair |-> NoPair,
                     printed |-> <<>>, logLoaded |-> TRUE]
               ELSE IF hp.isNone
               THEN [outcome |-> "raised", exc |-> "TypeError", pair |-> NoPair,
                     printed |-> <<>>, logLoaded |-> TRUE]
               ELSE IF hp.value["target_perf"] = Absent
               THEN [outcome |-> "raised", exc |-> "KeyError", pair |-> NoPair,
                     printed |-> <<>>, logLoaded |-> TRUE]
               ELSE LET c == PerfCheck(log.perf_min, hp.value["target_perf"])
                    IN IF c.exc # ""
                       THEN [outcome |-> "raised", exc |-> c.exc, pair |-> NoPair,
                             printed |-> c.printed, logLoaded |-> TRUE]
                       ELSE [outcome |-> "returned", exc |-> "",
                             pair |-> [isNone |-> FALSE, d |-> d, hp |-> hp],
                             printed |-> c.printed, logLoaded |-> TRUE]



----------------------------------------------------------------------------
\* gen_feed_dict(model, trial, hparams)

\* 2^24: up to here every integer is a float32
F32Exact == 16777216

\* the value an assignment into a float32 array stores (round to nearest,
\* ties to even), for magnitudes below 2^25
F32(v) ==
    IF Abs(v) <= F32Exact \/ v % 2 = 0 THEN v
    ELSE IF (v - 1) % 4 = 0 THEN v - 1 ELSE v + 1

\* np.argmax of a non-empty sequence: the first index (from 0) of the largest
RECURSIVE ArgMaxFrom(_, _, _)
ArgMaxFrom(v, j, best) ==
    IF j > Len(v) THEN best - 1
    ELSE ArgMaxFrom(v, j + 1, IF v[j] > v[best] THEN j ELSE best)

ArgMax(v) == ArgMaxFrom(v, 2, 1)

\* a slip: the offset is the rule index, not the rule index times the block size
IStartMutant(ind_rule, rule_start) == ind_rule

\* line 26: i_start = ind_rule*hparams['rule_start']
IStart(ind_rule, rule_start) == ind_rule * rule_start

Min(a, b) == IF a < b THEN a ELSE b

\* lines 25-28, for sample i (from 1): the tensor afterwards, or the error
FeedSample(x, trial, hp, i) ==
    LET R == hp.rule_start
        N == R * hp.n_rule
        suffix == [q \in 1..(trial.W - R) |-> trial.x[1][i][R + q]]
    IN IF trial.W - R = 0 THEN [exc |-> "ValueError", x |-> x]   \* argmax of nothing
       ELSE LET i_start == IStart(ArgMax(suffix), R)
                lo == Min(i_start, N)          \* a slice is clipped to the axis
                hi == Min(i_start + R, N)
            IN IF hi - lo = R
               THEN [exc |-> "",
                     x |-> [t \in 1..trial.T |-> [b \in 1..trial.B |-> [j \in 1..N |->
                              IF b = i /\ j > lo /\ j <= hi
                              THEN F32(trial.x[t][i][j - lo]) ELSE x[t][b][j]]]]]
               ELSE IF R = 1 THEN [exc |-> "", x |-> x]   \* a length 1 axis broadcasts to 0
               ELSE [exc |-> "ValueError", x |-> x]       \* could not broadcast

NoFeed == [outcome |-> "none", exc |-> "", x |-> <<>>, y |-> 0, c_mask |-> 0]

InTypes == {"normal", "multi", "other"}

XVals == <<0, 1, F32Exact + 1>>

\* trial inputs: per sample a block of R inputs, then the rule indicators
TrialX(T, B, R, W, h0, base, second) ==
    [t \in 1..T |-> [i \in 1..B |-> [j \in 1..W |->
        IF j <= R THEN XVals[((base + t + i + j) % 3) + 1]
        ELSE LET hot == (h0 + i - 1) % (W - R + 1)
                 act == (hot + t - 1) % (W - R)
                 q == j - R - 1
             IN IF hot = W - R THEN 0
                ELSE IF q = act THEN 1
                ELSE IF q = act + 1 THEN second ELSE 0]]]

FeedIdle ==
    /\ f_pc = "idle"
    /\ f_hp = [in_type |-> "normal", rule_start |-> 1, n_rule |-> 1]
    /\ f_trial = [T |-> 1, B |-> 0, W |-> 1, x |-> <<<<>>>>, y |-> 0, c_mask |-> 0]
    /\ f_i = 0
    /\ f_x = <<>>
    /\ f_out = NoFeed

\* the call: the 'normal' branch returns at once, the 'multi' branch
\* allocates x = np.zeros(new_shape), any other in_type leaves feed_dict unbound
FeedCall ==
    /\ f_pc = "idle"
    /\ f_out = NoFeed
    /\ \E in_type \in InTypes, T \in 1..MaxT, B \in 0..MaxB, R \in 1..MaxR, C \in 1..MaxC :
       \E W \in R..(R + C + 1) :
       \E h0 \in 0..(W - R), base \in 0..2, second \in 0..2, y \in {10, 11} :
          LET trial == [T |-> T, B |-> B, W |-> W,
                        x |-> TrialX(T, B, R, W, h0, base, second),
                        y |-> y, c_mask |-> y + 10]
          IN /\ f_hp' = [in_type |-> in_type, rule_start |-> R, n_rule |-> C]
             /\ f_trial' = trial
             /\ f_i' = 1
             /\ f_x' = IF in_type = "multi"
                       THEN [t \in 1..T |-> [b \in 1..B |-> [j \in 1..(R * C) |-> 0]]]
                       ELSE <<>>
             /\ f_pc' = IF in_type = "multi" THEN "loop" ELSE "done"
             /\ f_out' = IF in_type = "normal"
                         THEN [outcome |-> "returned", exc |-> "", x |-> trial.x,
                               y |-> trial.y, c_mask |-> trial.c_mask]
                         ELSE IF in_type = "multi" THEN NoFeed
                         ELSE [NoFeed EXCEPT !.outcome = "raised", !.exc = "UnboundLocalError"]
    /\ UNCHANGED <<orthoVars, fileVars, mkVars>>

\* one iteration of: for i in range(batch_size)
FeedLoop ==
    /\ f_pc = "loop"
    /\ f_i <= f_trial.B
    /\ LET r == FeedSample(f_x, f_trial, f_hp, f_i)
       IN IF r.exc = ""
          THEN /\ f_x' = r.x
               /\ f_i' = f_i + 1
               /\ UNCHANGED <<f_pc, f_out>>
          ELSE /\ f_pc' = "done"
               /\ f_out' = [NoFeed EXCEPT !.outcome = "raised", !.exc = r.exc]
               /\ UNCHANGED <<f_x, f_i>>
    /\ UNCHANGED <<f_hp, f_trial>>
    /\ UNCHANGED <<orthoVars, fileVars, mkVars>>

\* lines 30-34: the feed_dict of the 'multi' branch is returned
FeedReturn ==
    /\ f_pc = "loop"
    /\ f_i > f_trial.B
    /\ f_pc' = "done"
    /\ f_out' = [outcome |-> "returned", exc |-> "", x |-> f_x,
                 y |-> f_trial.y, c_mask |-> f_trial.c_mask]
    /\ UNCHANGED <<f_hp, f_trial, f_i, f_x>>
    /\ UNCHANGED <<orthoVars, fileVars, mkVars>>

----------------------------------------------------------------------------
\* mkdir_p(path).  A path is the sequence of its components; the tree gives
\* each path "none", "dir" or "file".

Names == {"a", "b"}

RECURSIVE PathsOfLen(_)
PathsOfLen(n) ==
    IF n = 0 THEN {<<>>}
    ELSE {Append(p, c) : p \in PathsOfLen(n - 1), c \in Names}

Paths == UNION {PathsOfLen(n) : n \in 1..MaxDepth}

Parent(p) == SubSeq(p, 1, Len(p) - 1)

\* os.path.exists, os.path.isdir; the root is a directory
Exists(tr, p) == p = <<>> \/ tr[p] # "none"
IsDir(tr, p) == p = <<>> \/ tr[p] = "dir"

\* os.mkdir(p): the errno it raises, or "" with the directory made
Mkdir(tr, ro, p) ==
    IF ~Exists(tr, Parent(p)) THEN [err |-> "ENOENT", tree |-> tr]
    ELSE IF ~IsDir(tr, Parent(p)) THEN [err |-> "ENOTDIR", tree |-> tr]
    ELSE IF Exists(tr, p) THEN [err |-> "EEXIST", tree |-> tr]
    ELSE IF ro /\ Parent(p) = <<>> THEN [err |-> "EACCES", tree |-> tr]
    ELSE [err |-> "", tree |-> [tr EXCEPT ![p] = "dir"]]

\* os.makedirs(p): the missing parents first, then the leaf
RECURSIVE Makedirs(_, _, _)
Makedirs(tr, ro, p) ==
    LET head == Parent(p)
        up == IF head # <<>> /\ ~Exists(tr, head)
              THEN Makedirs(tr, ro, head)
              ELSE [err |-> "", tree |-> tr]
    IN IF up.err \notin {"", "EEXIST"} THEN up
       ELSE Mkdir(up.tree, ro, p)

\* a slip: every EEXIST is swallowed, a directory or not
SwallowMutant(err, isdir) == err = "EEXIST"

\* line 153: the error the handler lets pass
Swallow(err, isdir) == err = "EEXIST" /\ isdir

MkdirP(tr, ro, p) ==
    LET r == Makedirs(tr, ro, p)
    IN IF r.err = "" \/ Swallow(r.err, IsDir(r.tree, p))
       THEN [outcome |-> "returned", errno |-> "", tree |-> r.tree]
       ELSE [outcome |-> "raised", errno |-> r.err, tree |-> r.tree]

IsDirIn(D, p) == p = <<>> \/ p \in D

\* the directory trees: every directory and file lies in a directory
DirSets == {D \in SUBSET Paths : \A p \in D : IsDirIn(D, Parent(p))}

MkIdle ==
    /\ tree = [p \in Paths |-> "none"]
    /\ rootRO = FALSE
    /\ m_last = [op |-> "none"]

DoMkdirP ==
    /\ m_last.op = "none"
    /\ \E p \in Paths :
          LET r == MkdirP(tree, rootRO, p)
          IN /\ tree' = r.tree
             /\ m_last' = [op |-> "mkdir_p", path |-> p, outcome |-> r.outcome,
                           errno |-> r.errno, before |-> tree]
    /\ UNCHANGED rootRO
    /\ UNCHANGED <<orthoVars, fileVars, feedVars>>

\* the caller goes on to its next call
MkDiscard ==
    /\ m_last.op # "none"
    /\ m_last' = [op |-> "none"]
    /\ UNCHANGED <<tree, rootRO>>
    /\ UNCHANGED <<orthoVars, fileVars, feedVars>>

----------------------------------------------------------------------------
\* The calls on the model directories

\* stored hyper-parameter mappings found on disk
StoredA == [EmptyMap EXCEPT !["seed"] = PyInt(0), !["target_perf"] = PyInt(1)]
StoredAx == [StoredA EXCEPT !["n_rnn"] = PyInt(0)]
StoredB == [StoredA EXCEPT !["seed"] = PyInt(1)]

StoredNoPerf == [EmptyMap EXCEPT !["seed"] = PyInt(0)]

StoredMaps == {StoredA, StoredAx, StoredB, StoredNoPerf}

DirStates ==
    [names : {{"checkpoint"}, {"checkpoint", "model.ckpt-100.index"}},
     hp : {NoFile} \cup {JsonFile(m) : m \in StoredMaps},
     log : {NoLog, LogFile(<<1, 0>>), LogFile(<<0, 1>>)}]

\* hp_target, as the sequence of its items in iteration order
Targets ==
    { <<>>,
      << <<"seed", PyInt(0)>> >>,
      << <<"seed", PyInt(1)>> >>,
      << <<"seed", PyInt(0)>>, <<"target_perf", PyInt(1)>> >>,
      << <<"seed", PyInt(1)>>, <<"n_rnn", PyInt(0)>> >>,
      << <<"n_rnn", PyInt(0)>>, <<"seed", PyInt(1)>> >>,
      << <<"rng", RngObj(SeedOffset)>> >> }

\* the caller's mappings handed to save_hparams
CallerMaps ==
    { [k \in AllKeys |-> CASE k = "seed" -> PyInt(seed)
                           [] k = "target_perf" -> PyInt(1)
                           [] k = "n_rnn" -> n
                           [] OTHER -> IF withRng THEN RngObj(seed) ELSE Absent] :
        seed \in {0, 1}, n \in {Absent, PyInt(0), PyTuple(0), PyList(0)},
        withRng \in BOOLEAN }

SaveDirStates ==
    [names : {{"checkpoint", "model.ckpt-100.index"}},
     hp : {NoFile, JsonFile(StoredA)},
     log : {NoLog}]

PyVersions == {2, 3}

FilesIdle ==
    /\ fs = [d \in Dirs |-> [names |-> {}, hp |-> NoFile, log |-> NoLog]]
    /\ hparams = EmptyMap
    /\ saved = [d \in Dirs |-> "no"]
    /\ last = [op |-> "none"]

DoLoadLog ==
    /\ last.op = "none"
    /\ \E d \in Dirs :
          last' = [op |-> "load_log", dir |-> d, res |-> LoadLog(fs[d])]
    /\ UNCHANGED <<fs, hparams, saved>>
    /\ UNCHANGED <<orthoVars, feedVars, mkVars>>

DoLoadHparams ==
    /\ last.op = "none"
    /\ \E d \in Dirs :
          last' = [op |-> "load_hparams", dir |-> d, res |-> LoadHparams(fs[d])]
    /\ UNCHANGED <<fs, hparams, saved>>
    /\ UNCHANGED <<orthoVars, feedVars, mkVars>>

DoFindAllModels ==
    /\ last.op = "none"
    /\ \E t \in Targets :
          last' = [op |-> "find_all_models", target |-> t, res |-> FindAllModels(fs, t)]
    /\ UNCHANGED <<fs, hparams, saved>>
    /\ UNCHANGED <<orthoVars, feedVars, mkVars>>

DoFindModel ==
    /\ last.op = "none"
    /\ \E t \in Targets :
          last' = [op |-> "find_model", target |-> t, res |-> FindModel(fs, t)]
    /\ UNCHANGED <<fs, hparams, saved>>
    /\ UNCHANGED <<orthoVars, feedVars, mkVars>>

DoSaveHparams ==
    /\ last.op = "none"
    /\ \E d \in Dirs, py \in PyVersions :
          LET r == SaveHparams(hparams, fs[d], py)
          IN /\ hparams' = r.h
             /\ fs' = [fs EXCEPT ![d] = r.d]
             /\ saved' = [saved EXCEPT ![d] = r.res.outcome]
             /\ last' = [op |-> "save_hparams", dir |-> d, py |-> py, res |-> r.res,
                         h_before |-> hparams, fs_before |-> fs]
    /\ UNCHANGED <<orthoVars, feedVars, mkVars>>

\* save_log(log) with log['train_dir'] = d
DoSaveLog ==
    /\ last.op = "none"
    /\ \E d \in Dirs :
          /\ fs' = [fs EXCEPT ![d].log = LogFile(<<1>>)]
          /\ last' = [op |-> "save_log", dir |-> d]
    /\ UNCHANGED <<hparams, saved>>
    /\ UNCHANGED <<orthoVars, feedVars, mkVars>>

\* the caller goes on to its next call
Discard ==
    /\ last.op # "none"
    /\ last' = [op |-> "none"]
    /\ UNCHANGED <<fs, hparams, saved>>
    /\ UNCHANGED <<orthoVars, feedVars, mkVars>>

\* the matrix generator, called twice
OrthoInit ==
    /\ OrthoIdle
    /\ np_random \in {RandomState(s) : s \in 0..MaxGlobalSeed}
    /\ FilesIdle
    /\ FeedIdle
    /\ MkIdle

OrthoNext == OrthoCall \/ OrthoStep \/ OrthoReturn \/ OrthoAgain

SpecOrtho == OrthoInit /\ [][OrthoNext]_vars

\* the search and the loaders, over any directory tree
FindInit ==
    /\ fs \in [Dirs -> DirStates]
    /\ hparams = EmptyMap
    /\ saved = [d \in Dirs |-> "no"]
    /\ last = [op |-> "none"]
    /\ OrthoIdle
    /\ np_random = RandomState(0)
    /\ FeedIdle
    /\ MkIdle

FindNext == DoLoadLog \/ DoLoadHparams \/ DoFindAllModels \/ DoFindModel \/ Discard

SpecFind == FindInit /\ [][FindNext]_vars

\* saving and loading back
SaveInit ==
    /\ fs \in [Dirs -> SaveDirStates]
    /\ hparams \in CallerMaps
    /\ saved = [d \in Dirs |-> "no"]
    /\ last = [op |-> "none"]
    /\ OrthoIdle
    /\ np_random = RandomState(0)
    /\ FeedIdle
    /\ MkIdle

SaveNext == DoSaveHparams \/ DoLoadHparams \/ DoSaveLog \/ Discard

SpecSave == SaveInit /\ [][SaveNext]_vars

\* the feed dict of one trial
FeedInit ==
    /\ FeedIdle
    /\ OrthoIdle
    /\ np_random = RandomState(0)
    /\ FilesIdle
    /\ MkIdle

FeedNext == FeedCall \/ FeedLoop \/ FeedReturn

SpecFeed == FeedInit /\ [][FeedNext]_vars

\* mkdir_p over any directory tree
MkInit ==
    /\ \E D \in DirSets :
       \E F \in SUBSET {p \in Paths \ D : IsDirIn(D, Parent(p))} :
          tree = [p \in Paths |-> IF p \in D THEN "dir" ELSE IF p \in F THEN "file" ELSE "none"]
    /\ rootRO \in BOOLEAN
    /\ m_last = [op |-> "none"]
    /\ OrthoIdle
    /\ np_random = RandomState(0)
    /\ FilesIdle
    /\ FeedIdle

MkNext == DoMkdirP \/ MkDiscard

SpecMkdir == MkInit /\ [][MkNext]_vars

----------------------------------------------------------------------------
\* Properties of gen_ortho_matrix

\* C1: whatever the random source returns (a first component of 0 included),
\* the returned matrix M satisfies M . M^T = identity.
C1_Orthogonal ==
    o_pc = "done" => MMt(o_H, o_dim) = Eye(o_dim)

\* the part of C1 the code does meet: every draw has a non-zero first component
C1_OrthogonalNonZeroFirst ==
    (o_pc = "done" /\ \A n \in 1..Len(o_draws) : o_draws[n][1] # 0)
        => MMt(o_H, o_dim) = Eye(o_dim)

\* C9: two calls with the same dim and supplied generators in the same state
\* return identical matrices; the result is a function of dim and of the
\* dim-1 draws, of lengths dim, dim-1, ..., 2 in that order; a call with a
\* supplied generator leaves the process-global source as it found it.
C9_Deterministic ==
    o_pc = "done" =>
        /\ Len(o_draws) = o_dim - 1
        /\ \A n \in 1..Len(o_draws) : Len(o_draws[n]) = o_dim - n + 1
        /\ o_entry.rng # None => np_random = o_entry.np_random
        /\ o_first # None =>
              /\ (/\ o_first.dim = o_dim
                  /\ o_entry.rng # None
                  /\ o_first.entry.rng = o_entry.rng) => o_first.H = o_H
              /\ (o_first.dim = o_dim /\ o_first.draws = o_draws) => o_first.H = o_H

\* a second call with a supplied generator seeded as the first one's, with
\* dim = 3, has returned a matrix other than the identity
C9_Witness ==
    /\ o_pc = "done"
    /\ o_first # None
    /\ o_dim = 3
    /\ o_first.dim = 3
    /\ o_entry.rng # None
    /\ o_first.entry.rng = o_entry.rng
    /\ o_H # Eye(3)
    /\ ~o_H.nan

----------------------------------------------------------------------------
\* Properties of the search and of the loaders

RECURSIVE Ascending(_)
Ascending(S) ==
    IF S = {} THEN <<>>
    ELSE LET m == CHOOSE x \in S : \A y \in S : x <= y
         IN <<m>> \o Ascending(S \ {m})

\* the stored mapping of d holds every item of the target
Agrees(d, target) ==
    \A i \in 1..Len(target) :
        /\ d.hp.exists
        /\ target[i][1] # "rng"
        /\ d.hp.json[target[i][1]] = target[i][2]

\* the stored mapping of d holds every key of the target
HoldsKeys(d, target) ==
    \A i \in 1..Len(target) : d.hp.exists /\ (target[i][1] = "rng" \/ d.hp.json[target[i][1]] # Absent)

\* the target as a mapping
TargetMap(target) ==
    [k \in AllKeys |-> IF \E i \in 1..Len(target) : target[i][1] = k
                       THEN (CHOOSE v \in {target[i][2] : i \in 1..Len(target)} :
                                \E i \in 1..Len(target) : target[i] = <<k, v>>)
                       ELSE Absent]

CkptDirs == {d \in Dirs : ContainModelFile(fs[d])}

\* C3 as stated: over directories that all carry a checkpoint marker and a
\* hyper-parameter file, find_all_models returns exactly the directories whose
\* stored mapping equals the target (no key more, none different), each
\* paired at its index with its loaded hyper-parameters.
C3_ExactMatch ==
    (/\ last.op = "find_all_models"
     /\ \A d \in Dirs : ContainModelFile(fs[d]) /\ fs[d].hp.exists) =>
        /\ last.res.outcome = "returned"
        /\ last.res.dirs = Ascending({d \in Dirs : fs[d].hp.json = TargetMap(last.target)})
        /\ Len(last.res.hps) = Len(last.res.dirs)
        /\ \A i \in 1..Len(last.res.dirs) : last.res.hps[i] = LoadHparams(fs[last.res.dirs[i]])

\* C3 amended: find_all_models returns, in walk order, exactly the checkpoint
\* directories whose stored mapping agrees with the target on every key of
\* the target (keys the target does not name are not compared), each paired at
\* its index with its loaded hyper-parameters; it returns whenever every
\* checkpoint directory holds a mapping with every key of the target, and
\* raises only when some checkpoint directory lacks one.
C3_SubsetMatch ==
    last.op = "find_all_models" =>
        /\ last.res.outcome = "returned" =>
              /\ last.res.dirs = Ascending({d \in CkptDirs : Agrees(fs[d], last.target)})
              /\ Len(last.res.hps) = Len(last.res.dirs)
              /\ \A i \in 1..Len(last.res.dirs) :
                    last.res.hps[i] = LoadHparams(fs[last.res.dirs[i]])
        /\ (\A d \in CkptDirs : HoldsKeys(fs[d], last.target)) => last.res.outcome = "returned"
        /\ last.res.outcome = "raised" =>
              /\ last.res.exc \in {"TypeError", "KeyError"}
              /\ \E d \in CkptDirs : ~HoldsKeys(fs[d], last.target)

\* a search that returned one directory whose stored mapping has a key the
\* target lacks, and passed over another
C3_Witness ==
    /\ last.op = "find_all_models"
    /\ last.res.outcome = "returned"
    /\ Len(last.res.dirs) = 1
    /\ Cardinality(CkptDirs) = 2
    /\ last.target # <<>>
    /\ fs[last.res.dirs[1]].hp.json # TargetMap(last.target)

\* C5: with log.pkl / hparams.json absent the loaders return None, and so do
\* not make their callers raise: find_all_models over a checkpoint directory
\* without hparams.json, find_model over a matching directory without log.pkl.
C5_MissingFileNoRaise ==
    /\ (last.op = "load_log" /\ ~fs[last.dir].log.exists) =>
            last.res.outcome = "returned" /\ last.res.isNone
    /\ (last.op = "load_hparams" /\ ~fs[last.dir].hp.exists) =>
            last.res.outcome = "returned" /\ last.res.isNone
    /\ (/\ last.op = "find_all_models"
        /\ \E d \in CkptDirs : ~fs[d].hp.exists
        /\ \A d \in CkptDirs : fs[d].hp.exists => HoldsKeys(fs[d], last.target)) =>
            last.res.outcome = "returned"
    /\ (/\ last.op = "find_model"
        /\ FindAllModels(fs, last.target).outcome = "returned"
        /\ FindAllModels(fs, last.target).dirs # <<>>
        /\ ~fs[FindAllModels(fs, last.target).dirs[1]].log.exists) =>
            last.res.outcome = "returned"

\* the part of C5 about the loaders alone
C5_LoadersReturnNone ==
    /\ (last.op = "load_log" /\ ~fs[last.dir].log.exists) =>
            last.res.outcome = "returned" /\ last.res.isNone
    /\ (last.op = "load_hparams" /\ ~fs[last.dir].hp.exists) =>
            last.res.outcome = "returned" /\ last.res.isNone

\* C7: with no checkpoint directory matching the target, find_model prints a
\* message and returns (None, None), raising nothing and loading no log; with
\* one or more matching it returns the first and its hyper-parameters.  Stated
\* over stored mappings that hold 'target_perf' and every key of the target.
C7_FindModel ==
    (/\ last.op = "find_model"
     /\ \A d \in CkptDirs : fs[d].hp.exists =>
            HoldsKeys(fs[d], last.target) /\ fs[d].hp.json["target_perf"] # Absent) =>
        LET matches == Ascending({d \in CkptDirs : Agrees(fs[d], last.target)})
        IN /\ last.res.outcome = "returned"
           /\ matches = <<>> =>
                 /\ last.res.pair.isNone
                 /\ last.res.printed = <<NotFoundMsg>>
                 /\ ~last.res.logLoaded
           /\ matches # <<>> =>
                 /\ ~last.res.pair.isNone
                 /\ last.res.pair.d = matches[1]
                 /\ last.res.pair.hp = LoadHparams(fs[matches[1]])

\* the directory tree with the log of d replaced by one that meets the target
WithPerf(fsys, d, v) == [fsys EXCEPT ![d].log = LogFile(<<v>>)]

\* C8: when the last perf_min of the model found is below its target_perf,
\* find_model prints a warning and no more: it returns the directory and the
\* hyper-parameters it returns when the performance meets the target.
C8_WarningOnly ==
    last.op = "find_model" =>
        LET r == FindAllModels(fs, last.target)
        IN (/\ r.outcome = "returned"
            /\ r.dirs # <<>>
            /\ ~r.hps[1].isNone
            /\ r.hps[1].value["target_perf"] # Absent
            /\ fs[r.dirs[1]].log.exists
            /\ fs[r.dirs[1]].log.perf_min # <<>>
            /\ fs[r.dirs[1]].log.perf_min[Len(fs[r.dirs[1]].log.perf_min)]
                  < r.hps[1].value["target_perf"][2]) =>
              LET met == FindModel(WithPerf(fs, r.dirs[1], r.hps[1].value["target_perf"][2]),
                                   last.target)
              IN /\ last.res.outcome = "returned"
                 /\ last.res.printed = <<WarningMsg>>
                 /\ last.res.pair = [isNone |-> FALSE, d |-> r.dirs[1], hp |-> r.hps[1]]
                 /\ met.outcome = "returned"
                 /\ met.printed = <<>>
                 /\ met.pair = last.res.pair

\* find_model has found a model whose last perf_min is below the target
C8_Witness ==
    /\ last.op = "find_model"
    /\ last.res.outcome = "returned"
    /\ last.res.printed = <<WarningMsg>>
    /\ ~last.res.pair.isNone
    /\ fs[last.res.pair.d].log.perf_min = <<1, 0>>

----------------------------------------------------------------------------
\* Properties of save_hparams and load_hparams

\* C2: for a mapping with 'seed' and 'rng', save_hparams then load_hparams on
\* the same directory returns a mapping with the same keys, equal on every key
\* but 'rng', whose 'rng' is a generator seeded at seed + 1000.
C2_RoundTrip ==
    (/\ last.op = "load_hparams"
     /\ saved[last.dir] # "no"
     /\ hparams["seed"] # Absent
     /\ hparams["rng"] # Absent) =>
        /\ saved[last.dir] = "returned"
        /\ last.res.outcome = "returned"
        /\ ~last.res.isNone
        /\ Keys(last.res.value) = Keys(hparams)
        /\ \A k \in Keys(hparams) \ {"rng"} : last.res.value[k] = hparams[k]
        /\ last.res.value["rng"] = RngObj(hparams["seed"][2] + SeedOffset)

\* what holds of the round trip once the save has returned: the keys, the
\* seed of the generator, and every value that is not a tuple
C2_RoundTripAfterSave ==
    (/\ last.op = "load_hparams"
     /\ saved[last.dir] = "returned") =>
        /\ last.res.outcome = "returned"
        /\ ~last.res.isNone
        /\ Keys(last.res.value) = Keys(hparams)
        /\ \A k \in Keys(hparams) \ {"rng"} :
              hparams[k][1] # "tuple" => last.res.value[k] = hparams[k]
        /\ last.res.value["rng"] = RngObj(hparams["seed"][2] + SeedOffset)

\* C10: save_hparams leaves the caller's mapping as it was, 'rng' included,
\* stores every field but 'rng' in hparams.json, and changes nothing else.
C10_SaveFrame ==
    (last.op = "save_hparams" /\ last.h_before["rng"] # Absent) =>
        /\ hparams = last.h_before
        /\ fs[last.dir].hp.exists
        /\ fs[last.dir].hp.valid
        /\ Keys(fs[last.dir].hp.json) = Keys(last.h_before) \ {"rng"}
        /\ \A d \in Dirs \ {last.dir} : fs[d] = last.fs_before[d]
        /\ fs[last.dir].log = last.fs_before[last.dir].log
        /\ fs[last.dir].names = last.fs_before[last.dir].names

\* the part of C10 that holds whatever the interpreter: the caller's mapping
\* and every file but hparams.json in the directory are left alone
C10_CallerAndOtherFilesUnchanged ==
    last.op = "save_hparams" =>
        /\ hparams = last.h_before
        /\ \A d \in Dirs \ {last.dir} : fs[d] = last.fs_before[d]
        /\ fs[last.dir].log = last.fs_before[last.dir].log
        /\ fs[last.dir].names = last.fs_before[last.dir].names
        /\ last.py = 2 /\ last.res.outcome = "returned" =>
              Keys(fs[last.dir].hp.json) = Keys(last.h_before) \ {"rng"}

----------------------------------------------------------------------------
\* Properties of gen_feed_dict

\* the first index (from 0) of the largest rule indicator of sample i at the
\* first timestep
RuleOf(i) ==
    LET R == f_hp.rule_start
        n == f_trial.W - R
    IN CHOOSE k \in 0..(n - 1) :
          /\ \A q \in 0..(n - 1) : f_trial.x[1][i][R + 1 + q] <= f_trial.x[1][i][R + 1 + k]
          /\ \A q \in 0..(k - 1) : f_trial.x[1][i][R + 1 + q] < f_trial.x[1][i][R + 1 + k]

ShapeIs(x, T, B, N) ==
    /\ Len(x) = T
    /\ \A t \in 1..T : Len(x[t]) = B /\ \A i \in 1..B : Len(x[t][i]) = N

\* C4 as stated: in 'multi' mode the returned tensor has shape [T, B, R*C];
\* for each sample the block of R entries at offset k*R, k the argmax of its
\* rule indicators, holds the original inputs, every other entry is zero; y
\* and c_mask are passed through.
C4_MultiBlocks ==
    (f_pc = "done" /\ f_hp.in_type = "multi" /\ f_trial.W > f_hp.rule_start) =>
        LET R == f_hp.rule_start
            N == R * f_hp.n_rule
        IN /\ f_out.outcome = "returned"
           /\ ShapeIs(f_out.x, f_trial.T, f_trial.B, N)
           /\ \A i \in 1..f_trial.B : RuleOf(i) * R + R <= N
           /\ \A t \in 1..f_trial.T, i \in 1..f_trial.B, j \in 1..N :
                 f_out.x[t][i][j] =
                    IF j > RuleOf(i) * R /\ j <= RuleOf(i) * R + R
                    THEN f_trial.x[t][i][j - RuleOf(i) * R] ELSE 0
           /\ f_out.y = f_trial.y
           /\ f_out.c_mask = f_trial.c_mask

\* C4 amended: the same, when every sample's argmax k (taken at the first
\* timestep) is below C, so that its block lies inside the tensor, and with
\* the block holding the original inputs as float32 values.
C4_MultiBlocksInRange ==
    (/\ f_pc = "done"
     /\ f_hp.in_type = "multi"
     /\ f_trial.W > f_hp.rule_start
     /\ \A i \in 1..f_trial.B : RuleOf(i) < f_hp.n_rule) =>
        LET R == f_hp.rule_start
            N == R * f_hp.n_rule
        IN /\ f_out.outcome = "returned"
           /\ ShapeIs(f_out.x, f_trial.T, f_trial.B, N)
           /\ \A t \in 1..f_trial.T, i \in 1..f_trial.B, j \in 1..N :
                 f_out.x[t][i][j] =
                    IF j > RuleOf(i) * R /\ j <= RuleOf(i) * R + R
                    THEN F32(f_trial.x[t][i][j - RuleOf(i) * R]) ELSE 0
           /\ f_out.y = f_trial.y
           /\ f_out.c_mask = f_trial.c_mask

\* a 'multi' feed dict of two timesteps and two samples with blocks of two,
\* one sample on rule 1, with a non-zero input copied
C4_Witness ==
    /\ f_pc = "done"
    /\ f_hp.in_type = "multi"
    /\ f_out.outcome = "returned"
    /\ f_trial.T = 2
    /\ f_trial.B = 2
    /\ f_hp.rule_start = 2
    /\ f_hp.n_rule = 2
    /\ f_trial.W = 4
    /\ \E i \in 1..2 : RuleOf(i) = 1 /\ f_out.x[2][i][3] # 0
    /\ \A i \in 1..2 : RuleOf(i) < 2

----------------------------------------------------------------------------
\* Properties of mkdir_p

\* some component of the path, the path itself included, is a file
FileOnPath(tr, p) == \E n \in 1..Len(p) : tr[SubSeq(p, 1, n)] = "file"

\* C6: mkdir_p on an existing directory raises nothing and changes nothing,
\* so repeating a call that returned changes nothing more; every other
\* failure of the operating system (the path being a file, a file on the way,
\* a root that refuses the write) reaches the caller.
C6_Idempotent ==
    m_last.op = "mkdir_p" =>
        LET p == m_last.path
            again == MkdirP(tree, rootRO, p)
        IN /\ IsDir(m_last.before, p) => m_last.outcome = "returned" /\ tree = m_last.before
           /\ m_last.outcome = "returned" =>
                 /\ IsDir(tree, p)
                 /\ again.outcome = "returned"
                 /\ again.tree = tree
           /\ m_last.before[p] = "file" =>
                 m_last.outcome = "raised" /\ m_last.errno = "EEXIST"
           /\ FileOnPath(m_last.before, Parent(p)) =>
                 m_last.outcome = "raised" /\ m_last.errno = "ENOTDIR"
           /\ (rootRO /\ m_last.before[SubSeq(p, 1, 1)] = "none") =>
                 m_last.outcome = "raised" /\ m_last.errno = "EACCES"
           /\ m_last.outcome = "returned" <=>
                 /\ ~FileOnPath(m_last.before, p)
                 /\ ~rootRO \/ m_last.before[SubSeq(p, 1, 1)] = "dir"

\* mkdir_p has been called on a directory that was there, with files about
C6_Witness ==
    /\ m_last.op = "mkdir_p"
    /\ Len(m_last.path) = 2
    /\ IsDir(m_last.before, m_last.path)
    /\ m_last.outcome = "returned"
    /\ \E q \in Paths : tree[q] = "file"

====
